---- MODULE Spec2Model ----
(***************************************************************************)
(* One run of the ossaudit command line (src/ossaudit/cli.py).             *)
(*                                                                         *)
(* The run is one sequential process.  pc is its position:                 *)
(*   "parse"   option conversion and validation (click, validate_threshold)*)
(*   "reset"   cli.py:93-94                                                *)
(*   "collect" cli.py:96-100                                               *)
(*   "audit"   cli.py:102-108 (the call, the ignore filter, the handler)   *)
(*   "report"  cli.py:110-127                                              *)
(*   "done"    the process has ended                                       *)
(*                                                                         *)
(* Decimal numbers (CVSS scores, the text given to --threshold) are held   *)
(* in tenths: 5.5 is 55.  The audit engine, the cache store and the        *)
(* package collaborators live in modules that cli.py imports; they are     *)
(* modelled at their interface, from the specification.  The table is      *)
(* modelled by its number of rows; the column selection is left out.       *)
(***************************************************************************)
EXTENDS Integers, Sequences, FiniteSets, TLC

\* ------------------------------------------------------------ bounds
\* longest vulnerability list the audit returns
MaxVulns == 3
\* packages per remote query
BatchSize == 2

\* ------------------------------------------------------------ values
None == "None"
\* cvss_score of a record that carries no score
Unset == -1
\* default of --threshold: "not set"
ThresholdDefault == -1

Advisories ==
    { [id |-> "10", cve |-> "CVE-10", cvss_score |-> 20],
      [id |-> "20", cve |-> "CVE-20", cvss_score |-> 55],
      [id |-> "30", cve |-> "",       cvss_score |-> 90],
      [id |-> "40", cve |-> "CVE-40", cvss_score |-> Unset] }

\* lists of distinct records, at most MaxVulns long
VulnLists ==
    { s \in UNION { [1..n -> Advisories] : n \in 0..MaxVulns } :
        \A i, j \in DOMAIN s : s[i] = s[j] => i = j }

IgnoreUniverse == {"10", "CVE-20", "CVE-40"}

\* the text given to --threshold, in tenths: -2, -1, 0, 5, 5.5, 6, 10, 11
ThresholdArgs == {-20, -10, 0, 50, 55, 60, 100, 110}

InstalledPackages == << [name |-> "a", version |-> "1.1"],
                        [name |-> "b", version |-> "2.2"] >>

FilePackages == << [name |-> "c", version |-> "1.1"] >>

Credentials == { <<None, None>>, <<"abc", "xyz">> }

\* ignore_ids is a tuple in the code; only membership in it is ever used
Options ==
    [ installed     : BOOLEAN,
      files         : { <<>>, <<"requirements.txt">> },
      credentials   : Credentials,
      ignore_ids    : SUBSET IgnoreUniverse,
      ignore_cache  : BOOLEAN,
      reset_cache   : BOOLEAN,
      threshold_arg : ThresholdArgs ]

VARIABLES
    pc,            \* position of the run
    opt,           \* the command line
    threshold,     \* the validated --threshold value
    store_exists,  \* the cache store is on disk
    cache,         \* fingerprints the cache store holds
    cache_before,  \* the store's fingerprints when the run started
    pkgs,          \* cli.py:96
    calls,         \* collaborator calls made so far, in order
    audit_args,    \* arguments of the calls to audit.components
    remote,        \* fingerprints queried remotely by the audit
    hits,          \* fingerprints the audit read from the cache
    audit_error,   \* message of the AuditError the call raised, or None
    audit_result,  \* what audit.components returned
    vulns,         \* cli.py:103
    output,        \* lines written so far
    exit_status,   \* process exit status once pc = "done"
    ending         \* how the run ended

vars == << pc, opt, threshold, store_exists, cache, cache_before, pkgs, calls,
           audit_args, remote, hits, audit_error, audit_result, vulns, output,
           exit_status, ending >>

Range(s) == { s[i] : i \in DOMAIN s }

\* ------------------------------------------------------------ option parsing
\* click's type=int conversion of the option text ("5", "5.5", "-1"): only
\* whole numbers convert, any other text is a parameter error
IsInt(arg) == arg % 10 = 0

ToInt(arg) == arg \div 10

\* faulty variant: 0 < threshold instead of 0 <= threshold
validate_threshold_lower_open(t) ==
    (0 < t /\ t <= 10) \/ t = -1

\* TRUE: returns the threshold; FALSE: raises click.BadParameter
validate_threshold(t) ==
    (0 <= t /\ t <= 10) \/ t = -1

Line(kind, vals, msg) == [kind |-> kind, vals |-> vals, msg |-> msg]

Parse ==
    /\ pc = "parse"
    /\ IF IsInt(opt.threshold_arg) /\ validate_threshold(ToInt(opt.threshold_arg))
       THEN /\ threshold' = ToInt(opt.threshold_arg)
            /\ pc' = "reset"
            /\ UNCHANGED << output, exit_status, ending >>
       ELSE /\ output' = Append(output, Line("usage", <<>>, "Invalid value for --threshold"))
            /\ exit_status' = 2
            /\ ending' = "usage"
            /\ pc' = "done"
            /\ UNCHANGED threshold
    /\ UNCHANGED << opt, store_exists, cache, cache_before, pkgs, calls,
                    audit_args, remote, hits, audit_error, audit_result, vulns >>

\* ------------------------------------------------------------ cache reset
\* faulty variant: the flag is read but the store is left as it was
ResetCacheSkipped ==
    /\ pc = "reset"
    /\ pc' = "collect"
    /\ calls' = IF opt.reset_cache THEN Append(calls, "cache.reset") ELSE calls
    /\ UNCHANGED << opt, threshold, store_exists, cache, cache_before, pkgs,
                    audit_args, remote, hits, audit_error, audit_result, vulns, output,
                    exit_status, ending >>

ResetCache ==
    /\ pc = "reset"
    /\ pc' = "collect"
    /\ IF opt.reset_cache
       THEN /\ store_exists' = FALSE
            /\ cache' = {}
            /\ calls' = Append(calls, "cache.reset")
       ELSE UNCHANGED << store_exists, cache, calls >>
    /\ UNCHANGED << opt, threshold, cache_before, pkgs, audit_args, remote,
                    hits, audit_error, audit_result, vulns, output, exit_status, ending >>

\* ------------------------------------------------------------ collection
get_installed == InstalledPackages

get_from_files(files) == FilePackages

\* faulty variant: the file-listed packages are put first
CollectFilesFirst ==
    /\ pc = "collect"
    /\ pc' = "audit"
    /\ pkgs' = (IF opt.files # <<>> THEN get_from_files(opt.files) ELSE <<>>)
               \o (IF opt.installed THEN get_installed ELSE <<>>)
    /\ calls' = calls
               \o (IF opt.files # <<>> THEN <<"packages.get_from_files">> ELSE <<>>)
               \o (IF opt.installed THEN <<"packages.get_installed">> ELSE <<>>)
    /\ UNCHANGED << opt, threshold, store_exists, cache, cache_before,
                    audit_args, remote, hits, audit_error, audit_result, vulns, output,
                    exit_status, ending >>

Collect ==
    /\ pc = "collect"
    /\ pc' = "audit"
    /\ pkgs' = (IF opt.installed THEN get_installed ELSE <<>>)
               \o (IF opt.files # <<>> THEN get_from_files(opt.files) ELSE <<>>)
    /\ calls' = calls
               \o (IF opt.installed THEN <<"packages.get_installed">> ELSE <<>>)
               \o (IF opt.files # <<>> THEN <<"packages.get_from_files">> ELSE <<>>)
    /\ UNCHANGED << opt, threshold, store_exists, cache, cache_before,
                    audit_args, remote, hits, audit_error, audit_result, vulns, output,
                    exit_status, ending >>

\* ------------------------------------------------------------ audit engine
\* the packages of one call, cut into remote queries of at most BatchSize
RECURSIVE Batches(_)
Batches(ps) ==
    IF ps = <<>> THEN <<>>
    ELSE IF Len(ps) <= BatchSize THEN << ps >>
    ELSE << SubSeq(ps, 1, BatchSize) >> \o Batches(SubSeq(ps, BatchSize + 1, Len(ps)))

\* order-independent coordinates plus the marker of supplied credentials
Fingerprint(batch, username, token) ==
    [coords |-> Range(batch), auth |-> (username # None /\ token # None)]

\* The batches in order: a cached fingerprint is read from the store unless
\* the cache is bypassed, any other is queried remotely and stored on success.
\* failAt is the position of the batch whose remote query fails (0: none).
RECURSIVE Resolve(_, _, _, _, _, _)
Resolve(bs, c, bypass, username, token, failAt) ==
    IF bs = <<>>
    THEN [ok |-> TRUE, cache |-> c, remote |-> <<>>, hits |-> <<>>]
    ELSE LET fp == Fingerprint(Head(bs), username, token) IN
         IF ~bypass /\ fp \in c
         THEN LET r == Resolve(Tail(bs), c, bypass, username, token, failAt - 1)
              IN  [r EXCEPT !.hits = <<fp>> \o @]
         ELSE IF failAt = 1
              THEN [ok |-> FALSE, cache |-> c, remote |-> <<fp>>, hits |-> <<>>]
              ELSE LET r == Resolve(Tail(bs), c \cup {fp}, bypass, username,
                                    token, failAt - 1)
                   IN  [r EXCEPT !.remote = <<fp>> \o @]

\* audit.components(pkgs, username, token, ignore_cache) against store c
components(ps, username, token, ignore_cache, c, failAt) ==
    Resolve(Batches(ps), c, ignore_cache, username, token, failAt)

AuditErrorMessages == {"connection refused", "unexpected response"}

PossiblePackageLists ==
    { <<>>, InstalledPackages, FilePackages, InstalledPackages \o FilePackages }

AllFingerprints ==
    { Fingerprint(b, c[1], c[2]) :
        b \in UNION { Range(Batches(p)) : p \in PossiblePackageLists },
        c \in Credentials }

\* the store a run may find: none, one holding every query, one holding the
\* anonymous queries only
InitialStores ==
    { <<FALSE, {}>>,
      <<TRUE, AllFingerprints>>,
      <<TRUE, { fp \in AllFingerprints : ~fp.auth }>> }

\* ------------------------------------------------------------ ignore filter
\* faulty variant: a record is dropped only when id and cve both match
RECURSIVE FilterIgnoredBoth(_, _)
FilterIgnoredBoth(vs, ignore_ids) ==
    IF vs = <<>> THEN <<>>
    ELSE LET v == Head(vs)
             rest == FilterIgnoredBoth(Tail(vs), ignore_ids)
         IN  IF v.id \notin ignore_ids \/ v.cve \notin ignore_ids
             THEN <<v>> \o rest
             ELSE rest

\* cli.py:103-106, the list comprehension over the audit's result
RECURSIVE FilterIgnored(_, _)
FilterIgnored(vs, ignore_ids) ==
    IF vs = <<>> THEN <<>>
    ELSE LET v == Head(vs)
             rest == FilterIgnored(Tail(vs), ignore_ids)
         IN  IF v.id \notin ignore_ids /\ v.cve \notin ignore_ids
             THEN <<v>> \o rest
             ELSE rest

AuditReturns ==
    /\ pc = "audit"
    /\ \E returned \in VulnLists :
         LET r == components(pkgs, opt.credentials[1], opt.credentials[2],
                             opt.ignore_cache, cache, 0)
         IN  /\ r.ok
             /\ pkgs = <<>> => returned = <<>>
             /\ cache' = r.cache
             /\ store_exists' = (store_exists \/ r.remote # <<>>)
             /\ remote' = r.remote
             /\ hits' = r.hits
             /\ audit_result' = returned
             /\ vulns' = FilterIgnored(returned, opt.ignore_ids)
    /\ calls' = Append(calls, "audit.components")
    /\ audit_args' = Append(audit_args,
                            << pkgs, opt.credentials[1], opt.credentials[2],
                               opt.ignore_cache >>)
    /\ pc' = "report"
    /\ UNCHANGED << opt, threshold, cache_before, pkgs, audit_error, output,
                    exit_status, ending >>

\* faulty variant: the AuditError is swallowed and the run goes on to report
AuditRaisesSwallowed ==
    /\ pc = "audit"
    /\ \E failAt \in 1..Len(Batches(pkgs)), msg \in AuditErrorMessages :
         LET r == components(pkgs, opt.credentials[1], opt.credentials[2],
                             opt.ignore_cache, cache, failAt)
         IN  /\ ~r.ok
             /\ cache' = r.cache
             /\ store_exists' = (store_exists \/ Len(r.remote) > 1)
             /\ remote' = r.remote
             /\ hits' = r.hits
             /\ audit_error' = msg
    /\ calls' = Append(calls, "audit.components")
    /\ audit_args' = Append(audit_args,
                            << pkgs, opt.credentials[1], opt.credentials[2],
                               opt.ignore_cache >>)
    /\ pc' = "report"
    /\ UNCHANGED << opt, threshold, cache_before, pkgs, audit_result, vulns,
                    output, exit_status, ending >>

\* cli.py:107-108: AuditError becomes a ClickException, which click prints
\* and turns into exit status 1
AuditRaises ==
    /\ pc = "audit"
    /\ \E failAt \in 1..Len(Batches(pkgs)), msg \in AuditErrorMessages :
         LET r == components(pkgs, opt.credentials[1], opt.credentials[2],
                             opt.ignore_cache, cache, failAt)
         IN  /\ ~r.ok
             /\ cache' = r.cache
             /\ store_exists' = (store_exists \/ Len(r.remote) > 1)
             /\ remote' = r.remote
             /\ hits' = r.hits
             /\ audit_error' = msg
             /\ output' = Append(output, Line("error", <<>>, msg))
    /\ calls' = Append(calls, "audit.components")
    /\ audit_args' = Append(audit_args,
                            << pkgs, opt.credentials[1], opt.credentials[2],
                               opt.ignore_cache >>)
    /\ exit_status' = 1
    /\ ending' = "audit_error"
    /\ pc' = "done"
    /\ UNCHANGED << opt, threshold, cache_before, pkgs, audit_result, vulns >>

\* ------------------------------------------------------------ report
\* int() of a score: a record without a score makes it raise
CanInt(score) == score # Unset

\* int() truncates a non-negative decimal to its whole part
IntOf(score) == score \div 10

RECURSIVE CountAbove(_, _)
CountAbove(vs, t) ==
    IF vs = <<>> THEN 0
    ELSE (IF IntOf(Head(vs).cvss_score) >= t THEN 1 ELSE 0)
         + CountAbove(Tail(vs), t)

\* cli.py:110-118
Table(vs) == IF vs # <<>> THEN << Line("table", << Len(vs) >>, "") >> ELSE <<>>

\* faulty variant: the threshold count is computed and printed in both branches
SummariseAlwaysAbove(vs, ps, t) ==
    LET vlen == Len(vs)
        plen == Len(ps)
    IN  IF \E i \in DOMAIN vs : ~CanInt(vs[i].cvss_score)
        THEN [lines |-> << Line("traceback", <<>>, "TypeError") >>,
              status |-> 1, ending |-> "crash"]
        ELSE LET tlen == CountAbove(vs, t)
             IN  [lines |-> << Line("summary_above", << vlen, plen, tlen, t >>,
                                    "Found {} vulnerabilities in {} packages, {} above {}") >>,
                  status |-> IF (IF t >= 0 THEN tlen ELSE vlen) # 0 THEN 1 ELSE 0,
                  ending |-> "exit"]

\* faulty variant: nothing is printed in the branch without a threshold
SummariseSilentWhenUnset(vs, ps, t) ==
    LET vlen == Len(vs)
        plen == Len(ps)
    IN  IF t >= 0
        THEN IF \E i \in DOMAIN vs : ~CanInt(vs[i].cvss_score)
             THEN [lines |-> << Line("traceback", <<>>, "TypeError") >>,
                   status |-> 1, ending |-> "crash"]
             ELSE LET tlen == CountAbove(vs, t)
                  IN  [lines |-> << Line("summary_above", << vlen, plen, tlen, t >>,
                                         "Found {} vulnerabilities in {} packages, {} above {}") >>,
                       status |-> IF tlen # 0 THEN 1 ELSE 0,
                       ending |-> "exit"]
        ELSE [lines |-> <<>>,
              status |-> IF vlen # 0 THEN 1 ELSE 0,
              ending |-> "exit"]

\* cli.py:120-127: the summary line and the exit status.  With the threshold
\* set, int(v.cvss_score) of a record without a score raises before anything
\* is printed, and the uncaught exception ends the process with status 1.
Summarise(vs, ps, t) ==
    LET vlen == Len(vs)
        plen == Len(ps)
    IN  IF t >= 0
        THEN IF \E i \in DOMAIN vs : ~CanInt(vs[i].cvss_score)
             THEN [lines |-> << Line("traceback", <<>>, "TypeError") >>,
                   status |-> 1, ending |-> "crash"]
             ELSE LET tlen == CountAbove(vs, t)
                  IN  [lines |-> << Line("summary_above", << vlen, plen, tlen, t >>,
                                         "Found {} vulnerabilities in {} packages, {} above {}") >>,
                       status |-> IF tlen # 0 THEN 1 ELSE 0,
                       ending |-> "exit"]
        ELSE [lines |-> << Line("summary", << vlen, plen >>,
                                "Found {} vulnerabilities in {} packages") >>,
              status |-> IF vlen # 0 THEN 1 ELSE 0,
              ending |-> "exit"]

\* faulty variant: the report is made over the audit's unfiltered result
ReportUnfiltered ==
    /\ pc = "report"
    /\ LET s == Summarise(audit_result, pkgs, threshold)
       IN  /\ output' = output \o Table(audit_result) \o s.lines
           /\ exit_status' = s.status
           /\ ending' = s.ending
    /\ pc' = "done"
    /\ UNCHANGED << opt, threshold, store_exists, cache, cache_before, pkgs,
                    calls, audit_args, remote, hits, audit_error, audit_result, vulns >>

Report ==
    /\ pc = "report"
    /\ LET s == Summarise(vulns, pkgs, threshold)
       IN  /\ output' = output \o Table(vulns) \o s.lines
           /\ exit_status' = s.status
           /\ ending' = s.ending
    /\ pc' = "done"
    /\ UNCHANGED << opt, threshold, store_exists, cache, cache_before, pkgs,
                    calls, audit_args, remote, hits, audit_error, audit_result, vulns >>

\* ------------------------------------------------------------ specification
Init ==
    /\ pc = "parse"
    /\ opt \in Options
    /\ threshold = ThresholdDefault
    /\ \E s \in InitialStores : store_exists = s[1] /\ cache = s[2] /\ cache_before = s[2]
    /\ pkgs = <<>>
    /\ calls = <<>>
    /\ audit_args = <<>>
    /\ remote = <<>>
    /\ hits = <<>>
    /\ audit_error = None
    /\ audit_result = <<>>
    /\ vulns = <<>>
    /\ output = <<>>
    /\ exit_status = -1
    /\ ending = "running"

Next ==
    \/ Parse
    \/ ResetCache
    \/ Collect
    \/ AuditReturns
    \/ AuditRaises
    \/ Report

Spec == Init /\ [][Next]_vars

\* ------------------------------------------------------------ properties
Done == pc = "done"

\* the options were accepted and the body of cli ran
Accepted == ending # "usage"

Ignored(v) == v.id \in opt.ignore_ids \/ v.cve \in opt.ignore_ids

\* positions of the audit's result that no ignore identifier matches
Kept == { i \in DOMAIN audit_result : ~Ignored(audit_result[i]) }

\* records of the filtered list whose decimal score is at or above t (tenths)
AtOrAbove(t) ==
    { i \in DOMAIN vulns :
        vulns[i].cvss_score # Unset /\ vulns[i].cvss_score >= t }

SummaryLines ==
    { l \in Range(output) : l.kind \in {"summary", "summary_above"} }

AboveLines == { l \in Range(output) : l.kind = "summary_above" }

ScoreMissing == \E i \in DOMAIN vulns : vulns[i].cvss_score = Unset

ExpectedPackages ==
    (IF opt.installed THEN InstalledPackages ELSE <<>>)
    \o (IF opt.files # <<>> THEN FilePackages ELSE <<>>)

\* C1: in every run in which audit.components returned normally, the exit
\* status is non-zero exactly when the fail condition holds: threshold unset,
\* some vulnerability remains after the ignore filter; threshold set, some
\* remaining vulnerability has a score at or above it.
C1_ExitStatusIffFailCondition ==
    (Done /\ Accepted /\ audit_error = None) =>
        ( (exit_status # 0) <=>
          IF threshold = ThresholdDefault
          THEN Len(vulns) # 0
          ELSE AtOrAbove(10 * threshold) # {} )

\* C2: the list cli reports on holds exactly the records of the audit's result
\* whose id and cve are both outside the ignore set, in the audit's order;
\* ignoring "10" and "CVE-20" against (10, CVE-10), (20, CVE-20) leaves none.
C2_FilterKeepsExactlyUnignored ==
    (pc \in {"report", "done"}) =>
        /\ Len(vulns) = Cardinality(Kept)
        /\ \A i \in Kept :
             vulns[Cardinality({ j \in Kept : j <= i })] = audit_result[i]
        /\ ( /\ {"10", "CVE-20"} \subseteq opt.ignore_ids
             /\ Range(audit_result) \subseteq
                  { a \in Advisories : a.id \in {"10", "20"} } )
           => vulns = <<>>

C2_Witness ==
    /\ Done
    /\ opt.ignore_ids = {"10", "CVE-20"}
    /\ Len(audit_result) = 2
    /\ audit_result[1].id = "10"
    /\ audit_result[2].id = "20"
    /\ vulns = <<>>
    /\ exit_status = 0

\* C3: with the threshold set to t in 0..10, the run prints as "above t" the
\* number of filtered vulnerabilities whose decimal score is at least t, for
\* instance 2 for scores 2.0, 5.5, 9.0 and threshold 5.5.
C3_CountOnDecimalScore ==
    ( /\ Done
      /\ opt.threshold_arg >= 0
      /\ opt.threshold_arg <= 100
      /\ audit_error = None )
    => /\ Accepted
       /\ \E l \in AboveLines :
            l.vals[3] = Cardinality(AtOrAbove(opt.threshold_arg))

\* C4: when audit.components raises AuditError the run ends with a non-zero
\* status, the message is printed, and nothing else is: no table, no summary
\* line, no threshold evaluation.
C4_AuditErrorAborts ==
    (audit_error # None) =>
        /\ Done
        /\ exit_status # 0
        /\ output = << Line("error", <<>>, audit_error) >>
        /\ audit_result = <<>>
        /\ vulns = <<>>

C4_Witness ==
    /\ Done
    /\ audit_error = "connection refused"
    /\ opt.threshold_arg = 0
    /\ Len(pkgs) = 3
    /\ exit_status = 1

\* C5: with --reset-cache the reset is the first collaborator call, before
\* the packages are collected and before the one audit call, so the audit
\* reads no entry the store held when the run started and queries every such
\* fingerprint remotely; with no package selected the run ends with status 0
\* and no store.
C5_ResetBeforeAudit ==
    (opt.reset_cache /\ Accepted /\ pc \notin {"parse", "reset"}) =>
        /\ calls # <<>> /\ calls[1] = "cache.reset"
        /\ \A i \in DOMAIN calls : i > 1 => calls[i] # "cache.reset"
        /\ \A fp \in Range(hits) : fp \notin cache_before
        /\ (pc \in {"report", "done"} /\ audit_error = None) =>
             \A b \in Range(Batches(pkgs)) :
                Fingerprint(b, opt.credentials[1], opt.credentials[2])
                    \in Range(remote)
        /\ (Done /\ pkgs = <<>>) =>
             (exit_status = 0 /\ ~store_exists /\ cache = {} /\ remote = <<>>)

C5_Witness ==
    /\ Done
    /\ opt.reset_cache
    /\ ~opt.ignore_cache
    /\ cache_before = AllFingerprints
    /\ Len(remote) = 2
    /\ hits = <<>>
    /\ audit_error = None

C8_AuditCalledOnceWithCollectedPackages ==
    /\ Len(audit_args) <= 1
    /\ (Done /\ Accepted) =>
        /\ Len(audit_args) = 1
        /\ audit_args[1] = << ExpectedPackages, opt.credentials[1],
                              opt.credentials[2], opt.ignore_cache >>
        /\ (~opt.installed /\ opt.files = <<>>) =>
             (audit_args[1][1] = <<>> /\ exit_status = 0)

C8_Witness ==
    /\ Done
    /\ opt.installed
    /\ opt.files # <<>>
    /\ opt.credentials = << "abc", "xyz" >>
    /\ audit_args = << << InstalledPackages \o FilePackages, "abc", "xyz",
                          opt.ignore_cache >> >>

C10_CountsOverFilteredList ==
    Done =>
        /\ \A l \in SummaryLines :
             /\ l.vals[1] = Cardinality(Kept)
             /\ l.vals[1] <= Len(audit_result)
             /\ l.vals[2] = Len(audit_args[1][1])
        /\ \A l \in AboveLines : 0 <= l.vals[3] /\ l.vals[3] <= l.vals[1]
        /\ (Accepted /\ audit_error = None /\ exit_status # 0) =>
             \E i \in Kept :
                \/ threshold = ThresholdDefault
                \/ audit_result[i].cvss_score = Unset
                \/ audit_result[i].cvss_score >= 10 * threshold
        /\ (ending = "exit" /\ exit_status = 0) =>
             \A more \in SUBSET IgnoreUniverse :
                Summarise(FilterIgnored(audit_result, opt.ignore_ids \cup more),
                          pkgs, threshold).status = 0

C10_Witness ==
    /\ Done
    /\ ending = "exit"
    /\ threshold = 5
    /\ Len(audit_result) = 2
    /\ Len(vulns) = 1
    /\ exit_status = 0
    /\ \E i \in DOMAIN audit_result :
         audit_result[i].cvss_score = 55 /\ Ignored(audit_result[i])
    /\ \E l \in AboveLines : l.vals = << 1, 3, 0, 5 >>

====
